---- MODULE Spec2Model ----
(***************************************************************************)
(* Model of the Windows runner of Ghostcopy: FlutterWindow (window         *)
(* lifecycle and message dispatch, windows/runner/flutter_window.cpp) and  *)
(* PowerMonitor (power / session event forwarding over a method channel,   *)
(* windows/runner/power_monitor.cpp).                                      *)
(*                                                                         *)
(* The OS message pump, the base class Win32Window and the Flutter engine  *)
(* are the environment: their return values and the moments at which they  *)
(* call into the runner are inputs chosen with \E.                         *)
(***************************************************************************)
EXTENDS Integers, Sequences, FiniteSets, TLC

\* ------------------------------------------------------------------ bounds
MaxSent     == 2      \* notifications sent on the channel
MaxDestroy  == 2      \* calls of OnDestroy (and so of the unregistration)

\* ------------------------------------------------- Windows message numbers
WM_FONTCHANGE         == 29     \* 0x001D
WM_POWERBROADCAST     == 536    \* 0x0218
WM_WTSSESSION_CHANGE  == 689    \* 0x02B1
WM_OTHER              == 5      \* WM_SIZE: a message the switch has no case for

PBT_APMSUSPEND            == 4
PBT_APMRESUMESUSPEND      == 7
PBT_APMRESUMEAUTOMATIC    == 18  \* 0x12

WTS_SESSION_LOCK    == 7
WTS_SESSION_UNLOCK  == 8

Messages == {WM_FONTCHANGE, WM_POWERBROADCAST, WM_WTSSESSION_CHANGE, WM_OTHER}
\* wparam values: each is named by one switch and ignored by the other, but
\* for 7, which both name (PBT_APMRESUMESUSPEND = WTS_SESSION_LOCK)
WParams  == {PBT_APMSUSPEND, PBT_APMRESUMESUSPEND, PBT_APMRESUMEAUTOMATIC,
             WTS_SESSION_LOCK, WTS_SESSION_UNLOCK}

\* LRESULT values the engine or the base window procedure may return
LResults == {0, 1}

\* std::optional<LRESULT>: <<>> is std::nullopt, <<r>> holds r
OptLResults == {<<>>} \cup {<<r>> : r \in LResults}

\* Method names the managed layer may call on the channel
MethodNames == {"startListening", "StartListening", "stopListening"}

\* What std::make_unique<FlutterViewController> can yield: a controller whose
\* engine() and view() are both available, or one lacking either or both.
Controllers == {"controller", "controller_no_engine", "controller_no_view",
                "controller_bare"}

VARIABLES
  onCreateResult,      \* "none" | "ok" | "fail": what OnCreate returned
  flutter_controller_, \* "nullptr" or an element of Controllers
  power_monitor_,      \* "nullptr" | "monitor"
  channel_,            \* PowerMonitor::channel_: "nullptr" | "channel"
  pluginsRegistered,   \* RegisterPlugins was called
  childContent,        \* SetChildContent was called
  sessionRegs,         \* calls of WTSRegisterSessionNotification
  sessionUnregs,       \* calls of WTSUnRegisterSessionNotification
  next_frame_callback, \* the engine holds the lambda of OnCreate
  firstFrameDone,      \* the engine has completed a frame
  framePending,        \* the engine has a frame scheduled
  showCount,           \* calls of Win32Window::Show
  sent,                \* InvokeMethod calls issued on the channel, in order
  startListening,      \* the managed layer has called startListening
  crashed,             \* the process died on an invalid access
  nullDeref,           \* a null pointer has been dereferenced
  last                 \* what the most recent operation did

vars == <<onCreateResult, flutter_controller_, power_monitor_, channel_,
          pluginsRegistered, childContent, sessionRegs, sessionUnregs,
          next_frame_callback, firstFrameDone, framePending, showCount,
          sent, startListening, crashed, nullDeref, last>>

\* State of the FlutterWindow / PowerMonitor objects proper
hostState == <<flutter_controller_, power_monitor_, channel_,
               pluginsRegistered, childContent, sessionRegs, sessionUnregs,
               showCount>>

NoOp(name) ==
  [op |-> name, message |-> 0, wparam |-> 0, controller |-> "nullptr",
   monitor |-> "nullptr", engineResult |-> <<>>, trace |-> <<>>,
   invoked |-> <<>>, baseResult |-> <<>>, ret |-> <<>>, showed |-> FALSE,
   method |-> "", replies |-> <<>>]

\* Mutant of view: the check of view() is missing from OnCreate
view_Unchecked(c) == TRUE

\* FlutterViewController::engine() / view() are non-null
engine(c) == c \in {"controller", "controller_no_view"}
view(c)   == c \in {"controller", "controller_no_engine"}

Init ==
  /\ onCreateResult = "none"
  /\ flutter_controller_ = "nullptr"
  /\ power_monitor_ = "nullptr"
  /\ channel_ = "nullptr"
  /\ pluginsRegistered = FALSE
  /\ childContent = FALSE
  /\ sessionRegs = 0
  /\ sessionUnregs = 0
  /\ next_frame_callback = FALSE
  /\ firstFrameDone = FALSE
  /\ framePending = FALSE
  /\ showCount = 0
  /\ sent = <<>>
  /\ startListening = FALSE
  /\ crashed = FALSE
  /\ nullDeref = FALSE
  /\ last = NoOp("Init")

\* --------------------------------------------------------- PowerMonitor

\* Mutant of SendEvent: events are sent only once the managed layer has
\* called startListening
SendEvent_WhenListening(event_name) ==
  IF channel_ # "nullptr" /\ startListening
  THEN << [method |-> event_name, arguments |-> "nullptr",
           result |-> "nullptr"] >>
  ELSE <<>>

\* PowerMonitor::SendEvent: the InvokeMethod calls it issues
SendEvent(event_name) ==
  IF channel_ # "nullptr"
  THEN << [method |-> event_name, arguments |-> "nullptr",
           result |-> "nullptr"] >>
  ELSE <<>>

\* Mutant of HandlePowerBroadcast: the PBT_APMRESUMEAUTOMATIC label is missing
HandlePowerBroadcast_NoAutomatic(wparam) ==
  CASE wparam = PBT_APMSUSPEND ->
         << [method |-> "systemSuspend", arguments |-> "nullptr",
             result |-> "nullptr"] >>
    [] wparam = PBT_APMRESUMESUSPEND ->
         << [method |-> "systemResume", arguments |-> "nullptr",
             result |-> "nullptr"] >>
    [] OTHER -> <<>>

\* PowerMonitor::HandlePowerBroadcast
HandlePowerBroadcast(wparam) ==
  CASE wparam = PBT_APMSUSPEND -> SendEvent("systemSuspend")
    [] wparam \in {PBT_APMRESUMEAUTOMATIC, PBT_APMRESUMESUSPEND} ->
         SendEvent("systemResume")
    [] OTHER -> <<>>

\* Mutant of HandleSessionChange: the default case forwards the event too
HandleSessionChange_ForwardsAll(wparam) ==
  CASE wparam = WTS_SESSION_LOCK ->
         << [method |-> "sessionLock", arguments |-> "nullptr",
             result |-> "nullptr"] >>
    [] wparam = WTS_SESSION_UNLOCK ->
         << [method |-> "sessionUnlock", arguments |-> "nullptr",
             result |-> "nullptr"] >>
    [] OTHER ->
         << [method |-> "sessionChange", arguments |-> "nullptr",
             result |-> "nullptr"] >>

\* PowerMonitor::HandleSessionChange
HandleSessionChange(wparam) ==
  CASE wparam = WTS_SESSION_LOCK -> SendEvent("sessionLock")
    [] wparam = WTS_SESSION_UNLOCK -> SendEvent("sessionUnlock")
    [] OTHER -> <<>>

\* Mutant of MethodCallHandler: every method is answered with Success
MethodCallHandler_AlwaysSuccess(method_name) == << "Success" >>

\* The lambda given to SetMethodCallHandler: the replies it issues
MethodCallHandler(method_name) ==
  IF method_name = "startListening"
  THEN << "Success" >>
  ELSE << "NotImplemented" >>

\* The managed layer calls a method on the channel
MethodCall(method_name) ==
  /\ ~crashed
  /\ power_monitor_ # "nullptr"
  /\ channel_ # "nullptr"
  /\ startListening' = (startListening \/ method_name = "startListening")
  /\ last' = [NoOp("MethodCall") EXCEPT
                !.method = method_name,
                !.replies = MethodCallHandler(method_name)]
  /\ UNCHANGED <<onCreateResult, flutter_controller_, power_monitor_, channel_,
                 pluginsRegistered, childContent, sessionRegs, sessionUnregs,
                 next_frame_callback, firstFrameDone, framePending, showCount,
                 sent, crashed, nullDeref>>

\* --------------------------------------------------------- FlutterWindow

\* Mutant of ForceRedraw: OnCreate does not force a redraw
ForceRedraw_Missing(done, pending) == pending

\* FlutterViewController::ForceRedraw: schedules a frame once the first frame
\* has completed, a no-op before that
ForceRedraw(done, pending) == IF done THEN TRUE ELSE pending

\* Mutant of OnCreate: Show() is called at the end of a successful OnCreate
\* instead of being left to the next-frame callback alone.
OnCreate_ShowsAtOnce(baseOk, ctl, early) ==
  /\ ~crashed
  /\ onCreateResult = "none"
  \* an input the handler does not read is fixed
  /\ baseOk \/ ctl = "controller"
  /\ (baseOk /\ ctl = "controller") \/ ~early
  /\ last' = [NoOp("OnCreate") EXCEPT
                !.controller = IF baseOk THEN ctl ELSE "nullptr"]
  /\ IF ~baseOk
     THEN /\ onCreateResult' = "fail"
          /\ UNCHANGED <<flutter_controller_, power_monitor_, channel_,
                         pluginsRegistered, childContent, sessionRegs,
                         next_frame_callback, firstFrameDone, framePending>>
     ELSE /\ flutter_controller_' = ctl
          /\ IF ~engine(ctl) \/ ~view(ctl)
             THEN /\ onCreateResult' = "fail"
                  /\ UNCHANGED <<power_monitor_, channel_, pluginsRegistered,
                                 childContent, sessionRegs,
                                 next_frame_callback, firstFrameDone,
                                 framePending>>
             ELSE /\ pluginsRegistered' = TRUE
                  /\ childContent' = TRUE
                  /\ power_monitor_' = "monitor"
                  /\ channel_' = "channel"
                  /\ sessionRegs' = sessionRegs + 1
                  /\ next_frame_callback' = TRUE
                  /\ firstFrameDone' = early
                  /\ framePending' = ForceRedraw(early, ~early)
                  /\ onCreateResult' = "ok"
  /\ showCount' = IF baseOk /\ engine(ctl) /\ view(ctl)
                  THEN showCount + 1 ELSE showCount
  /\ UNCHANGED <<sessionUnregs, sent, startListening,
                 crashed, nullDeref>>

\* FlutterWindow::OnCreate. baseOk: Win32Window::OnCreate's result; ctl: the
\* controller make_unique yields; early: the engine completed its first frame
\* before SetNextFrameCallback was reached. OnCreate runs once per window.
OnCreate(baseOk, ctl, early) ==
  /\ ~crashed
  /\ onCreateResult = "none"
  \* an input the handler does not read is fixed
  /\ baseOk \/ ctl = "controller"
  /\ (baseOk /\ ctl = "controller") \/ ~early
  /\ last' = [NoOp("OnCreate") EXCEPT
                !.controller = IF baseOk THEN ctl ELSE "nullptr"]
  /\ IF ~baseOk
     THEN /\ onCreateResult' = "fail"
          /\ UNCHANGED <<flutter_controller_, power_monitor_, channel_,
                         pluginsRegistered, childContent, sessionRegs,
                         next_frame_callback, firstFrameDone, framePending>>
     ELSE /\ flutter_controller_' = ctl
          /\ IF ~engine(ctl) \/ ~view(ctl)
             THEN /\ onCreateResult' = "fail"
                  /\ UNCHANGED <<power_monitor_, channel_, pluginsRegistered,
                                 childContent, sessionRegs,
                                 next_frame_callback, firstFrameDone,
                                 framePending>>
             ELSE /\ pluginsRegistered' = TRUE
                  /\ childContent' = TRUE
                  /\ power_monitor_' = "monitor"
                  /\ channel_' = "channel"
                  /\ sessionRegs' = sessionRegs + 1
                  /\ next_frame_callback' = TRUE
                  /\ firstFrameDone' = early
                  /\ framePending' = ForceRedraw(early, ~early)
                  /\ onCreateResult' = "ok"
  /\ UNCHANGED <<sessionUnregs, showCount, sent, startListening,
                 crashed, nullDeref>>

\* Mutant of OnDestroy: the PowerMonitor is not released
OnDestroy_KeepsMonitor ==
  /\ ~crashed
  /\ sessionUnregs < MaxDestroy
  /\ sessionUnregs' = sessionUnregs + 1
  /\ power_monitor_' = power_monitor_
  /\ channel_' = channel_
  /\ flutter_controller_' = "nullptr"
  /\ last' = [NoOp("OnDestroy") EXCEPT
                !.controller = flutter_controller_,
                !.monitor = power_monitor_,
                !.trace = << "WTSUnRegisterSessionNotification" >>
                          \o <<>>
                          \o (IF flutter_controller_ # "nullptr"
                              THEN << "flutter_controller_ = nullptr" >>
                              ELSE <<>>)
                          \o << "Win32Window::OnDestroy" >>]
  /\ UNCHANGED <<onCreateResult, pluginsRegistered, childContent, sessionRegs,
                 next_frame_callback, firstFrameDone, framePending, showCount,
                 sent, startListening, crashed, nullDeref>>

\* FlutterWindow::OnDestroy; the trace records the calls and releases it
\* makes, in order
OnDestroy ==
  /\ ~crashed
  /\ sessionUnregs < MaxDestroy
  /\ sessionUnregs' = sessionUnregs + 1
  /\ power_monitor_' = "nullptr"
  /\ channel_' = "nullptr"
  /\ flutter_controller_' = "nullptr"
  /\ last' = [NoOp("OnDestroy") EXCEPT
                !.controller = flutter_controller_,
                !.monitor = power_monitor_,
                !.trace = << "WTSUnRegisterSessionNotification" >>
                          \o (IF power_monitor_ # "nullptr"
                              THEN << "power_monitor_ = nullptr" >>
                              ELSE <<>>)
                          \o (IF flutter_controller_ # "nullptr"
                              THEN << "flutter_controller_ = nullptr" >>
                              ELSE <<>>)
                          \o << "Win32Window::OnDestroy" >>]
  /\ UNCHANGED <<onCreateResult, pluginsRegistered, childContent, sessionRegs,
                 next_frame_callback, firstFrameDone, framePending, showCount,
                 sent, startListening, crashed, nullDeref>>

\* Mutant of NextFrameCallback: the lambda does not test flutter_controller_
NextFrameCallback_Unguarded == IF next_frame_callback THEN 1 ELSE 0

\* The lambda OnCreate gives to SetNextFrameCallback: the number of Show()
\* calls it makes
NextFrameCallback == IF flutter_controller_ # "nullptr" THEN 1 ELSE 0

\* The engine completes a scheduled frame and, if a next-frame callback is
\* installed, calls it once and drops it.
EngineFrame ==
  /\ ~crashed
  /\ framePending
  /\ framePending' = FALSE
  /\ firstFrameDone' = TRUE
  /\ next_frame_callback' = FALSE
  /\ showCount' = IF next_frame_callback
                  THEN showCount + NextFrameCallback ELSE showCount
  /\ last' = [NoOp("EngineFrame") EXCEPT
                !.showed = next_frame_callback /\ NextFrameCallback = 1,
                !.controller = flutter_controller_]
  /\ UNCHANGED <<onCreateResult, flutter_controller_, power_monitor_, channel_,
                 pluginsRegistered, childContent, sessionRegs, sessionUnregs,
                 sent, startListening, crashed, nullDeref>>

\* Mutant of Consumed: the engine's result is ignored
Consumed_Never(result) == FALSE

\* FlutterWindow::MessageHandler, lines 78-80: the engine's result ends the
\* handler
Consumed(result) == result # <<>>

\* Mutant of Switch: the power and session cases do not test power_monitor_
Switch_Unguarded(message, wparam) ==
  CASE message = WM_FONTCHANGE ->
         [trace |-> IF flutter_controller_ \in
                         {"controller", "controller_no_view"}
                    THEN << "ReloadSystemFonts" >>
                    ELSE << "ReloadSystemFonts(nullptr)" >>,
          invoked |-> <<>>]
    [] message = WM_POWERBROADCAST ->
         [trace |-> << "HandlePowerBroadcast" >>,
          invoked |-> HandlePowerBroadcast(wparam)]
    [] message = WM_WTSSESSION_CHANGE ->
         [trace |-> << "HandleSessionChange" >>,
          invoked |-> HandleSessionChange(wparam)]
    [] OTHER -> [trace |-> <<>>, invoked |-> <<>>]

\* FlutterWindow::MessageHandler, the switch: the calls it makes, in order,
\* and the InvokeMethod calls that result. A call through a null pointer is
\* written with "(nullptr)".
Switch(message, wparam) ==
  CASE message = WM_FONTCHANGE ->
         [trace |-> IF engine(flutter_controller_)
                    THEN << "ReloadSystemFonts" >>
                    ELSE << "ReloadSystemFonts(nullptr)" >>,
          invoked |-> <<>>]
    [] message = WM_POWERBROADCAST ->
         IF power_monitor_ # "nullptr"
         THEN [trace |-> << "HandlePowerBroadcast" >>,
               invoked |-> HandlePowerBroadcast(wparam)]
         ELSE [trace |-> <<>>, invoked |-> <<>>]
    [] message = WM_WTSSESSION_CHANGE ->
         IF power_monitor_ # "nullptr"
         THEN [trace |-> << "HandleSessionChange" >>,
               invoked |-> HandleSessionChange(wparam)]
         ELSE [trace |-> <<>>, invoked |-> <<>>]
    [] OTHER -> [trace |-> <<>>, invoked |-> <<>>]

\* FlutterWindow::MessageHandler. engineResult: what HandleTopLevelWindowProc
\* returns when it is called; baseResult: what Win32Window::MessageHandler
\* returns when it is called; ubCrash: whether a call through a null pointer
\* kills the process (TRUE) or happens to return (FALSE).
MessageHandler(message, wparam, engineResult, baseResult, ubCrash) ==
  /\ ~crashed
  /\ Len(sent) < MaxSent
  /\ LET engineCalled == flutter_controller_ # "nullptr"
         result   == IF engineCalled THEN engineResult ELSE <<>>
         consumed == engineCalled /\ Consumed(result)
         sw       == IF consumed THEN [trace |-> <<>>, invoked |-> <<>>]
                     ELSE Switch(message, wparam)
         deref    == ~consumed /\ message = WM_FONTCHANGE
                       /\ ~engine(flutter_controller_)
         dies     == deref /\ ubCrash
         toBase   == ~consumed /\ ~dies
     IN  \* an input the handler does not read is fixed
         /\ engineCalled \/ engineResult = <<>>
         /\ deref \/ ~ubCrash
         /\ toBase \/ baseResult = 0
         /\ message \in {WM_POWERBROADCAST, WM_WTSSESSION_CHANGE} \/ wparam = 0
         /\ sent' = sent \o sw.invoked
         /\ nullDeref' = (nullDeref \/ deref)
         /\ crashed' = dies
         /\ last' = [op |-> "MessageHandler", message |-> message,
                     wparam |-> wparam, controller |-> flutter_controller_,
                     monitor |-> power_monitor_,
                     engineResult |-> result,
                     trace |->
                       (IF engineCalled THEN << "HandleTopLevelWindowProc" >>
                        ELSE <<>>)
                       \o sw.trace
                       \o (IF toBase THEN << "Win32Window::MessageHandler" >>
                           ELSE <<>>),
                     invoked |-> sw.invoked,
                     baseResult |-> IF toBase THEN << baseResult >> ELSE <<>>,
                     ret |-> IF consumed THEN result
                             ELSE IF dies THEN <<>> ELSE << baseResult >>,
                     showed |-> FALSE, method |-> "", replies |-> <<>>]
  /\ UNCHANGED <<onCreateResult, flutter_controller_, power_monitor_, channel_,
                 pluginsRegistered, childContent, sessionRegs, sessionUnregs,
                 next_frame_callback, firstFrameDone, framePending, showCount,
                 startListening>>

Next ==
  \/ \E baseOk \in BOOLEAN, ctl \in Controllers, early \in BOOLEAN :
        OnCreate(baseOk, ctl, early)
  \/ OnDestroy
  \/ EngineFrame
  \/ \E m \in MethodNames : MethodCall(m)
  \/ \E message \in Messages, wparam \in WParams \cup {0},
        engineResult \in OptLResults, baseResult \in LResults,
        ubCrash \in BOOLEAN :
        MessageHandler(message, wparam, engineResult, baseResult, ubCrash)

Spec == Init /\ [][Next]_vars

\* The engine keeps rendering: a scheduled frame is eventually completed
FairSpec == Spec /\ WF_vars(EngineFrame)

\* ------------------------------------------------------------ properties

Range(seq) == {seq[i] : i \in 1..Len(seq)}

IsMessage(r) == r.op = "MessageHandler"

\* The notification the interface names for an OS event, "" for none
NotificationFor(message, wparam) ==
  IF message = WM_POWERBROADCAST
  THEN (IF wparam = 4 THEN "systemSuspend"
        ELSE IF wparam = 18 \/ wparam = 7 THEN "systemResume" ELSE "")
  ELSE IF message = WM_WTSSESSION_CHANGE
  THEN (IF wparam = 7 THEN "sessionLock"
        ELSE IF wparam = 8 THEN "sessionUnlock" ELSE "")
  ELSE ""

Notification(name) ==
  [method |-> name, arguments |-> "nullptr", result |-> "nullptr"]

\* C1: Show() is called only by the next-frame callback that a successful
\* OnCreate installed, on a step in which the engine completes a frame, never
\* by OnCreate itself; one OnCreate leads to at most one Show().
C1_ShowOnlyFromFrameCallback ==
  [][ /\ showCount' <= 1
      /\ showCount' # showCount =>
           /\ last'.op = "EngineFrame"
           /\ next_frame_callback
           /\ onCreateResult = "ok"
           /\ firstFrameDone'
           /\ showCount' = showCount + 1 ]_vars

C1_Witness ==
  /\ showCount = 1
  /\ last.op = "EngineFrame"
  /\ last.showed

\* C2 as stated: every recognised power or session message handled while the
\* PowerMonitor exists issues exactly one InvokeMethod, with the mapped name.
C2_Original ==
  (IsMessage(last) /\ last.monitor # "nullptr"
     /\ NotificationFor(last.message, last.wparam) # "")
  => last.invoked = << Notification(NotificationFor(last.message, last.wparam)) >>

\* C2 amended: every recognised power or session message handled while the
\* PowerMonitor exists, and which the engine's HandleTopLevelWindowProc did
\* not consume, appends exactly one InvokeMethod to the channel, with the
\* mapped name; a consumed one appends none.
C2_OneNotificationUnlessConsumed ==
  [][ (IsMessage(last') /\ power_monitor_ # "nullptr"
         /\ NotificationFor(last'.message, last'.wparam) # "")
      => sent' = IF last'.engineResult = <<>>
                 THEN Append(sent, Notification(
                        NotificationFor(last'.message, last'.wparam)))
                 ELSE sent ]_vars

C2_Witness ==
  /\ IsMessage(last)
  /\ last.message = WM_POWERBROADCAST
  /\ last.wparam = PBT_APMRESUMEAUTOMATIC
  /\ last.engineResult = <<>>
  /\ Len(sent) = 2
  /\ sent[2].method = "systemResume"

\* C3: the inbound handler answers each call exactly once, startListening
\* with Success and any other name with NotImplemented; the call changes no
\* state of the window or the monitor and sends no notification.
C3_InboundHandler ==
  [][ last'.op = "MethodCall" =>
        /\ last'.replies = << IF last'.method = "startListening"
                              THEN "Success" ELSE "NotImplemented" >>
        /\ hostState' = hostState
        /\ sent' = sent ]_vars

C3_Witness ==
  /\ last.op = "MethodCall"
  /\ last.method = "StartListening"
  /\ last.replies = << "NotImplemented" >>
  /\ sent # <<>>

\* C4: OnCreate fails when Win32Window::OnCreate fails or the controller
\* lacks its engine or its view, and after a failed OnCreate no plugin is
\* registered, no child content set, no PowerMonitor created, no session
\* notification registered, no next-frame callback installed, and the window
\* is never shown.
C4_FailureAborts ==
  /\ (last.op = "OnCreate" /\ last.controller # "controller")
       => onCreateResult = "fail"
  /\ onCreateResult = "fail" =>
       /\ ~pluginsRegistered
       /\ ~childContent
       /\ power_monitor_ = "nullptr"
       /\ channel_ = "nullptr"
       /\ sessionRegs = 0
       /\ ~next_frame_callback
       /\ ~framePending
       /\ showCount = 0
       /\ sent = <<>>

C4_Witness ==
  /\ onCreateResult = "fail"
  /\ flutter_controller_ = "controller_no_view"
  /\ IsMessage(last)
  /\ last.message = WM_POWERBROADCAST

PowerOrSession(r) == r.message \in {WM_POWERBROADCAST, WM_WTSSESSION_CHANGE}

\* C5 as stated: a power or session message handled while power_monitor_ is
\* null (or channel_ is null) sends nothing, calls neither PowerMonitor
\* handler, raises no error, and is passed on to Win32Window::MessageHandler.
C5_Original ==
  (IsMessage(last) /\ PowerOrSession(last) /\ last.monitor = "nullptr")
  => /\ last.invoked = <<>>
     /\ "HandlePowerBroadcast" \notin Range(last.trace)
     /\ "HandleSessionChange" \notin Range(last.trace)
     /\ ~crashed
     /\ last.trace[Len(last.trace)] = "Win32Window::MessageHandler"
     /\ last.ret = last.baseResult

\* C5 amended: a power or session message handled while power_monitor_ is
\* null (or channel_ is null) sends nothing, calls neither PowerMonitor
\* handler and raises no error; it is passed on to
\* Win32Window::MessageHandler unless HandleTopLevelWindowProc returned a
\* result for it, which can happen only after an OnCreate that failed the
\* engine/view check and left flutter_controller_ set.
C5_SilentWithoutMonitor ==
  [][ (IsMessage(last') /\ PowerOrSession(last')
         /\ (power_monitor_ = "nullptr" \/ channel_ = "nullptr"))
      => /\ sent' = sent
         /\ last'.invoked = <<>>
         /\ "HandlePowerBroadcast" \notin Range(last'.trace)
         /\ "HandleSessionChange" \notin Range(last'.trace)
         /\ ~crashed'
         /\ IF last'.engineResult = <<>>
            THEN /\ last'.trace[Len(last'.trace)] = "Win32Window::MessageHandler"
                 /\ last'.ret = last'.baseResult
            ELSE /\ onCreateResult = "fail"
                 /\ flutter_controller_ # "nullptr"
                 /\ last'.trace = << "HandleTopLevelWindowProc" >> ]_vars

C5_Witness ==
  /\ IsMessage(last)
  /\ last.message = WM_WTSSESSION_CHANGE
  /\ last.wparam = WTS_SESSION_LOCK
  /\ last.monitor = "nullptr"
  /\ last.trace = << "Win32Window::MessageHandler" >>
  /\ onCreateResult = "ok"
  /\ sent # <<>>

\* C6: every notification carries no payload and no result handler; what a
\* message sends is decided by the message, the engine's result and the
\* presence of the PowerMonitor alone, whether or not startListening was ever
\* called, and an inbound call changes neither the notifications sent nor the
\* state of the window or the monitor.
C6_FireAndForget ==
  /\ [](\A i \in 1..Len(sent) :
          sent[i].arguments = "nullptr" /\ sent[i].result = "nullptr")
  /\ [][ /\ IsMessage(last') =>
              sent' = IF /\ power_monitor_ # "nullptr"
                         /\ last'.engineResult = <<>>
                         /\ NotificationFor(last'.message, last'.wparam) # ""
                      THEN Append(sent, Notification(
                             NotificationFor(last'.message, last'.wparam)))
                      ELSE sent
         /\ last'.op = "MethodCall" =>
              (sent' = sent /\ hostState' = hostState) ]_vars

C6_Witness ==
  /\ ~startListening
  /\ IsMessage(last)
  /\ Len(sent) = 2
  /\ last.invoked # <<>>

\* C7: only the four named notifications are ever sent; a power broadcast or
\* session change with any other wparam, and any other window message, sends
\* nothing and leaves the PowerMonitor as it was.
C7_OnlyFourNames ==
  /\ [](\A i \in 1..Len(sent) :
          sent[i].method \in {"systemSuspend", "systemResume", "sessionLock",
                              "sessionUnlock"})
  /\ [][ (IsMessage(last')
           /\ ~ \/ (last'.message = WM_POWERBROADCAST
                      /\ last'.wparam \in {4, 18, 7})
                \/ (last'.message = WM_WTSSESSION_CHANGE
                      /\ last'.wparam \in {7, 8}))
         => /\ sent' = sent
            /\ last'.invoked = <<>>
            /\ power_monitor_' = power_monitor_
            /\ channel_' = channel_ ]_vars

C7_Witness ==
  /\ IsMessage(last)
  /\ last.message = WM_WTSSESSION_CHANGE
  /\ last.wparam = PBT_APMSUSPEND
  /\ last.monitor # "nullptr"
  /\ last.engineResult = <<>>
  /\ last.trace = << "HandleTopLevelWindowProc", "HandleSessionChange",
                     "Win32Window::MessageHandler" >>
  /\ sent # <<>>

\* C8: whenever flutter_controller_ is non-null, HandleTopLevelWindowProc is
\* the first call MessageHandler makes; if it returns a result, that result
\* is returned and nothing else is called for the message.
C8_EngineFirst ==
  (IsMessage(last) /\ last.controller # "nullptr")
  => /\ Len(last.trace) >= 1
     /\ last.trace[1] = "HandleTopLevelWindowProc"
     /\ last.engineResult # <<>> =>
          /\ last.ret = last.engineResult
          /\ last.trace = << "HandleTopLevelWindowProc" >>
          /\ last.invoked = <<>>
          /\ last.baseResult = <<>>

C8_Witness ==
  /\ IsMessage(last)
  /\ last.message = WM_POWERBROADCAST
  /\ last.wparam = PBT_APMSUSPEND
  /\ last.monitor # "nullptr"
  /\ last.engineResult = << 1 >>
  /\ last.ret = << 1 >>
  /\ sent = <<>>

\* C9: after a successful OnCreate the window is eventually shown, unless
\* OnDestroy comes first, whether the first frame completed before or after
\* the next-frame callback was registered.
C9_EventuallyShown ==
  (onCreateResult = "ok") ~> (showCount >= 1 \/ flutter_controller_ = "nullptr")

\* The first frame completed before the callback was registered, and OnCreate
\* has forced the redraw that will run it
C9_Witness ==
  /\ onCreateResult = "ok"
  /\ last.op = "OnCreate"
  /\ firstFrameDone
  /\ next_frame_callback
  /\ framePending
  /\ showCount = 0

\* C10: MessageHandler never calls through a null flutter_controller_ or a
\* null engine(), whatever the message and the lifecycle state.
C10_NoNullDereference == ~nullDeref

\* OnDestroy has run on a window that OnCreate had created
Destroyed == onCreateResult = "ok" /\ flutter_controller_ = "nullptr"

\* The lifecycle of the window: 0 not created, 1 created, 2 visible,
\* 3 destroyed
Lifecycle ==
  IF onCreateResult # "ok" THEN 0
  ELSE IF flutter_controller_ = "nullptr" THEN 3
  ELSE IF showCount >= 1 THEN 2 ELSE 1

C12_RegistrationBalanced == sessionUnregs <= sessionRegs

\* C13: whenever power_monitor_ is set, flutter_controller_ is set and has
\* its engine (and the monitor has its channel); OnDestroy releases the
\* monitor before the controller.
C13_MonitorWithinController ==
  /\ power_monitor_ # "nullptr" =>
       /\ flutter_controller_ = "controller"
       /\ channel_ # "nullptr"
       /\ onCreateResult = "ok"
  /\ (last.op = "OnDestroy" /\ last.monitor # "nullptr") =>
       \E i, j \in 1..Len(last.trace) :
         /\ i < j
         /\ last.trace[i] = "power_monitor_ = nullptr"
         /\ last.trace[j] = "flutter_controller_ = nullptr"

C13_Witness ==
  /\ last.op = "OnDestroy"
  /\ last.monitor = "monitor"
  /\ last.controller = "controller"
  /\ power_monitor_ = "nullptr"
  /\ sent # <<>>

\* C14: every message the engine does not consume is passed to
\* Win32Window::MessageHandler exactly once, as the last call, and
\* MessageHandler returns its result.
C14_PassedToBase ==
  (IsMessage(last) /\ last.engineResult = <<>>)
  => /\ Len(last.trace) >= 1
     /\ last.trace[Len(last.trace)] = "Win32Window::MessageHandler"
     /\ Cardinality({i \in 1..Len(last.trace) :
                       last.trace[i] = "Win32Window::MessageHandler"}) = 1
     /\ Len(last.baseResult) = 1
     /\ last.ret = last.baseResult
====
